---- MODULE Spec2Model ----
(***************************************************************************)
(* Model of generate_attractions.py: the main flow (lines 115-130), which  *)
(* calls generate_attractions_list, print_table and save_to_csv in that    *)
(* order.  Every Python statement group is one action; an uncaught         *)
(* exception ends the run in pc = "aborted" with its type in exc.          *)
(*                                                                         *)
(* Python values are records of one shape, [kind, items]:                  *)
(*   kind "list"  items = the elements                                     *)
(*   kind "str"   items = the characters                                   *)
(*   kind "dict"  items = one entry per key (only its length matters)      *)
(*   kind "num", "bool", "null": items = << >>                             *)
(*   kind "None": no value (a variable not assigned yet)                   *)
(* Elements of a list are records of one shape, [kind, keys, id]: a JSON   *)
(* object with the given keys (id tells apart objects with equal keys), or *)
(* a JSON number, a character of a string, an entry of a dict.             *)
(***************************************************************************)
EXTENDS Integers, Sequences, FiniteSets, TLC

\* Bounds of the model.
MaxLen == 3      \* longest list or string in a response
MaxN == 3        \* largest requested count

\* generate_attractions.py:80, content[:500]
PreviewLen == 500

VARIABLES
    pc,               \* position in the program
    env_key,          \* os.getenv('XAI_API_KEY'): "absent", "empty" or "set"
    num_attractions,  \* the argument of generate_attractions_list
    client,           \* TRUE once openai.OpenAI(...) was built
    api_calls,        \* number of client.chat.completions.create calls
    response,         \* response.choices[0].message.content, or NoResponse
    attractions_list, \* the candidate sequence (a Python value)
    result,           \* the value generate_attractions_list returned (attractions in main)
    exc,              \* the uncaught exception, "none" if none
    out,              \* the lines printed, as tags
    preview_len,      \* length of the raw preview printed at line 80, -1 if none
    table,            \* the rows print_table printed
    row,              \* print_table's loop index i
    csv               \* data.csv: [written, rows]

vars == <<pc, env_key, num_attractions, client, api_calls, response,
          attractions_list, result, exc, out, preview_len, table, row, csv>>

-----------------------------------------------------------------------------
\* Values

Min(a, b) == IF a < b THEN a ELSE b
Max(a, b) == IF a > b THEN a ELSE b

Fields == {"name", "address", "description"}
\* the order in which line 112 reads the keys
FieldOrder == <<"name", "address", "description">>

\* two contents tell apart records that have the same keys
Ids == {1, 2}

KeySets == {Fields} \cup {Fields \ {f} : f \in Fields}

Record(keys, id) == [kind |-> "dict", keys |-> keys, id |-> id]
Number == [kind |-> "num", keys |-> {}, id |-> 0]
Char == [kind |-> "char", keys |-> {}, id |-> 0]
Entry == [kind |-> "entry", keys |-> {}, id |-> 0]

\* what a JSON array of a response may hold
Elements == {Record(k, i) : k \in KeySets, i \in Ids} \cup {Number}

SeqsUpTo(S, n) == UNION {[1..k -> S] : k \in 0..n}

PyList(s) == [kind |-> "list", items |-> s]
PyStr(s) == [kind |-> "str", items |-> s]
PyDict(s) == [kind |-> "dict", items |-> s]
PyNum == [kind |-> "num", items |-> << >>]
PyBool == [kind |-> "bool", items |-> << >>]
PyNull == [kind |-> "null", items |-> << >>]
PyNone == [kind |-> "None", items |-> << >>]

Lists == {PyList(s) : s \in SeqsUpTo(Elements, MaxLen)}
Strs == {PyStr(s) : s \in SeqsUpTo({Char}, MaxLen)}
Dicts == {PyDict(s) : s \in SeqsUpTo({Entry}, MaxLen)}
Scalars == {PyNum, PyBool, PyNull}

\* the values a JSON object may hold under "attractions"
AttrValues == Lists \cup Strs \cup Dicts \cup Scalars

\* A parsed JSON document: top is its Python value when it is not an object;
\* for an object, has tells whether it has the key "attractions" and attr is
\* the value under it.
JsonArray(l) == [kind |-> "list", top |-> l, has |-> FALSE, attr |-> PyNone]
JsonObject(has, v) == [kind |-> "dict", top |-> PyNone, has |-> has, attr |-> v]
JsonOther(v) == [kind |-> v.kind, top |-> v, has |-> FALSE, attr |-> PyNone]
NoJson == [kind |-> "None", top |-> PyNone, has |-> FALSE, attr |-> PyNone]

JsonDocs == {JsonArray(l) : l \in Lists}
            \cup {JsonObject(TRUE, v) : v \in AttrValues}
            \cup {JsonObject(FALSE, PyNone)}
            \cup {JsonOther(v) : v \in Scalars \cup Strs}

\* message.content: a text that is valid JSON (json is what json.loads
\* makes of it), a text that is not (of len characters), or None.
ValidText(j) == [kind |-> "json", len |-> 0, json |-> j]
InvalidText(n) == [kind |-> "invalid", len |-> n, json |-> NoJson]
NullContent == [kind |-> "none", len |-> 0, json |-> NoJson]
NoResponse == [kind |-> "noresponse", len |-> 0, json |-> NoJson]

InvalidLens == {8, PreviewLen, PreviewLen + 100}

Contents == {ValidText(j) : j \in JsonDocs}
            \cup {InvalidText(n) : n \in InvalidLens}
            \cup {NullContent}

-----------------------------------------------------------------------------
\* Python primitives

\* len(v) is defined for lists, strings and dicts
HasLen(v) == v.kind \in {"list", "str", "dict"}
PyLen(v) == Len(v.items)

\* mutant of SliceTo: the slice keeps one element too many
SliceToOffByOne(s, n) ==
    LET stop == IF n < 0 THEN Max(Len(s) + n, 0) ELSE Min(n + 1, Len(s))
    IN SubSeq(s, 1, stop)

\* s[:n] on a sequence of length Len(s), for any integer n
SliceTo(s, n) ==
    LET stop == IF n < 0 THEN Max(Len(s) + n, 0) ELSE Min(n, Len(s))
    IN SubSeq(s, 1, stop)

\* v[:n] is defined for lists and strings and keeps the type
Sliceable(v) == v.kind \in {"list", "str"}
PySlice(v, n) == [kind |-> v.kind, items |-> SliceTo(v.items, n)]

\* not v
Falsy(v) == \/ v.kind \in {"None", "null"}
            \/ HasLen(v) /\ PyLen(v) = 0

\* attr[key]
Subscriptable(e, key) == e.kind = "dict" /\ key \in e.keys
SubscriptError(e) == IF e.kind = "dict" THEN "KeyError" ELSE "TypeError"

Raise(e) == /\ pc' = "aborted"
            /\ exc' = e

\* print(...): the lines are appended to the output
Emit(lines) == out' = out \o lines

-----------------------------------------------------------------------------
Init ==
    /\ pc = "main"
    /\ env_key \in {"absent", "empty", "set"}
    /\ num_attractions = 0
    /\ client = FALSE
    /\ api_calls = 0
    /\ response = NoResponse
    /\ attractions_list = PyNone
    /\ result = PyNone
    /\ exc = "none"
    /\ out = << >>
    /\ preview_len = -1
    /\ table = << >>
    /\ row = 0
    /\ csv = [written |-> FALSE, rows |-> << >>]

\* lines 116-118 and 24: main calls generate_attractions_list(n)
MainCall(n) ==
    /\ pc = "main"
    /\ num_attractions' = n
    /\ Emit(<<"starting_process", "starting_generation">>)
    /\ pc' = "check_key"
    /\ UNCHANGED <<env_key, client, api_calls, response, attractions_list,
                   result, exc, preview_len, table, row, csv>>

\* lines 26-27: the credential is absent or empty
KeyMissing ==
    /\ pc = "check_key"
    /\ env_key \in {"absent", "empty"}
    /\ Raise("ValueError")
    /\ UNCHANGED <<env_key, num_attractions, client, api_calls, response,
                   attractions_list, result, out, preview_len, table, row, csv>>

\* mutant of BuildClient: the check tests for None only, so an empty
\* credential passes
BuildClientNoneOnly ==
    /\ pc = "check_key"
    /\ env_key # "absent"
    /\ Emit(<<"api_key_found">>)
    /\ client' = TRUE
    /\ pc' = "send"
    /\ UNCHANGED <<env_key, num_attractions, api_calls, response,
                   attractions_list, result, exc, preview_len, table, row, csv>>

\* lines 26, 29-33: the credential is there, the client is built
BuildClient ==
    /\ pc = "check_key"
    /\ env_key = "set"
    /\ Emit(<<"api_key_found">>)
    /\ client' = TRUE
    /\ pc' = "send"
    /\ UNCHANGED <<env_key, num_attractions, api_calls, response,
                   attractions_list, result, exc, preview_len, table, row, csv>>

\* lines 52-64: the request is answered
RequestAnswered ==
    /\ pc = "send"
    /\ client
    /\ api_calls' = api_calls + 1
    /\ \E content \in Contents : response' = content
    /\ Emit(<<"sending_request", "received_response">>)
    /\ pc' = "parse"
    /\ UNCHANGED <<env_key, num_attractions, client, attractions_list, result,
                   exc, preview_len, table, row, csv>>

\* mutant of RequestFails: the handler goes back to the request
RequestFailsRetry ==
    /\ pc = "send"
    /\ client
    /\ api_calls' = api_calls + 1
    /\ Emit(<<"sending_request", "api_error">>)
    /\ UNCHANGED <<pc, env_key, num_attractions, client, response,
                   attractions_list, result, exc, preview_len, table, row, csv>>

\* mutant of RequestFails: the handler returns an empty list
RequestFailsReturnsEmpty ==
    /\ pc = "send"
    /\ client
    /\ api_calls' = api_calls + 1
    /\ Emit(<<"sending_request", "api_error", "generated", "displaying">>)
    /\ result' = PyList(<< >>)
    /\ pc' = "print_table"
    /\ UNCHANGED <<env_key, num_attractions, client, response,
                   attractions_list, exc, preview_len, table, row, csv>>

\* lines 52-54, 65-67: the request fails, the exception is printed and re-raised
RequestFails ==
    /\ pc = "send"
    /\ client
    /\ api_calls' = api_calls + 1
    /\ Emit(<<"sending_request", "api_error">>)
    /\ Raise("APIError")
    /\ UNCHANGED <<env_key, num_attractions, client, response,
                   attractions_list, result, preview_len, table, row, csv>>

\* mutant of DictGet: .get without the default
DictGetNoDefault(j) == j.attr

\* generated_json.get("attractions", []) of line 76, on a JSON object
DictGet(j) == IF j.has THEN j.attr ELSE PyList(<< >>)

\* lines 73-76: the candidate of a parsed document that is a list or an object
Candidate(j) == IF j.kind = "list" THEN j.top ELSE DictGet(j)

\* lines 70-77: the text parses, the candidate is taken and its length printed
ParseOk ==
    /\ pc = "parse"
    /\ response.kind = "json"
    /\ response.json.kind \in {"list", "dict"}
    /\ HasLen(Candidate(response.json))
    /\ attractions_list' = Candidate(response.json)
    /\ Emit(<<"parsing", "parsed_count">>)
    /\ pc' = "check_len"
    /\ UNCHANGED <<env_key, num_attractions, client, api_calls, response,
                   result, exc, preview_len, table, row, csv>>

\* mutant of ParseNoGet: a value that is neither list nor object is taken
\* for an empty candidate
ParseNoGetEmpty ==
    /\ pc = "parse"
    /\ response.kind = "json"
    /\ response.json.kind \notin {"list", "dict"}
    /\ attractions_list' = PyList(<< >>)
    /\ Emit(<<"parsing", "parsed_count">>)
    /\ pc' = "check_len"
    /\ UNCHANGED <<env_key, num_attractions, client, api_calls, response,
                   result, exc, preview_len, table, row, csv>>

\* lines 70-76: the text parses to a string, number, boolean or null, which
\* has no .get: AttributeError, not caught by except json.JSONDecodeError
ParseNoGet ==
    /\ pc = "parse"
    /\ response.kind = "json"
    /\ response.json.kind \notin {"list", "dict"}
    /\ Emit(<<"parsing">>)
    /\ Raise("AttributeError")
    /\ UNCHANGED <<env_key, num_attractions, client, api_calls, response,
                   attractions_list, result, preview_len, table, row, csv>>

\* lines 70-77: the candidate is assigned but has no len(): TypeError at line 77
ParseNoLen ==
    /\ pc = "parse"
    /\ response.kind = "json"
    /\ response.json.kind \in {"list", "dict"}
    /\ ~HasLen(Candidate(response.json))
    /\ attractions_list' = Candidate(response.json)
    /\ Emit(<<"parsing">>)
    /\ Raise("TypeError")
    /\ UNCHANGED <<env_key, num_attractions, client, api_calls, response,
                   result, preview_len, table, row, csv>>

\* mutant of ParseInvalid: the handler goes on with an empty candidate
ParseInvalidSwallow ==
    /\ pc = "parse"
    /\ response.kind = "invalid"
    /\ Emit(<<"parsing", "json_decode_error", "raw_preview">>)
    /\ preview_len' = Len(SliceTo([k \in 1..response.len |-> Char], PreviewLen))
    /\ attractions_list' = PyList(<< >>)
    /\ pc' = "check_len"
    /\ UNCHANGED <<env_key, num_attractions, client, api_calls, response,
                   result, exc, table, row, csv>>

\* lines 70-72, 78-81: the text is not JSON: the error and the first 500
\* characters are printed and JSONDecodeError is re-raised
ParseInvalid ==
    /\ pc = "parse"
    /\ response.kind = "invalid"
    /\ Emit(<<"parsing", "json_decode_error", "raw_preview">>)
    /\ preview_len' = Len(SliceTo([k \in 1..response.len |-> Char], PreviewLen))
    /\ Raise("JSONDecodeError")
    /\ UNCHANGED <<env_key, num_attractions, client, api_calls, response,
                   attractions_list, result, table, row, csv>>

\* lines 70-72: message.content is None: json.loads raises TypeError, which
\* except json.JSONDecodeError does not catch
ParseNone ==
    /\ pc = "parse"
    /\ response.kind = "none"
    /\ Emit(<<"parsing">>)
    /\ Raise("TypeError")
    /\ UNCHANGED <<env_key, num_attractions, client, api_calls, response,
                   attractions_list, result, preview_len, table, row, csv>>

\* mutant of ShouldWarn: <= for <
ShouldWarnLeq(length, n) == length <= n

\* line 83: len(attractions_list) < num_attractions
ShouldWarn(length, n) == length < n

\* lines 83-84: the under-delivery warning
WarnShort ==
    /\ pc = "check_len"
    /\ ShouldWarn(PyLen(attractions_list), num_attractions)
    /\ Emit(<<"warning">>)
    /\ pc' = "return"
    /\ UNCHANGED <<env_key, num_attractions, client, api_calls, response,
                   attractions_list, result, exc, preview_len, table, row, csv>>

\* line 83: the candidate is long enough, nothing is printed
NoWarn ==
    /\ pc = "check_len"
    /\ ~ShouldWarn(PyLen(attractions_list), num_attractions)
    /\ pc' = "return"
    /\ UNCHANGED <<env_key, num_attractions, client, api_calls, response,
                   attractions_list, result, exc, out, preview_len, table,
                   row, csv>>

\* lines 86-87 and 120, 123: the first num_attractions elements are returned
\* to main, which prints their number
Return ==
    /\ pc = "return"
    /\ Sliceable(attractions_list)
    /\ result' = PySlice(attractions_list, num_attractions)
    /\ Emit(<<"returning", "generated", "displaying">>)
    /\ pc' = "print_table"
    /\ UNCHANGED <<env_key, num_attractions, client, api_calls, response,
                   attractions_list, exc, preview_len, table, row, csv>>

\* line 86: a dict cannot be sliced: TypeError (unhashable slice) up to
\* Python 3.11, KeyError from 3.12 on, where a slice is hashable
ReturnNoSlice ==
    /\ pc = "return"
    /\ ~Sliceable(attractions_list)
    /\ \E e \in {"TypeError", "KeyError"} : Raise(e)
    /\ UNCHANGED <<env_key, num_attractions, client, api_calls, response,
                   attractions_list, result, out, preview_len, table, row, csv>>

\* lines 105-107 and 127: nothing to display; main goes on to save_to_csv
TableEmpty ==
    /\ pc = "print_table"
    /\ Falsy(result)
    /\ Emit(<<"no_attractions", "saving">>)
    /\ pc' = "save"
    /\ UNCHANGED <<env_key, num_attractions, client, api_calls, response,
                   attractions_list, result, exc, preview_len, table, row, csv>>

\* lines 105, 109-110: the header of the table
TableHeader ==
    /\ pc = "print_table"
    /\ ~Falsy(result)
    /\ Emit(<<"table_header", "table_rule">>)
    /\ row' = 1
    /\ pc' = "rows"
    /\ UNCHANGED <<env_key, num_attractions, client, api_calls, response,
                   attractions_list, result, exc, preview_len, table, csv>>

\* the first key of line 112 that attr[key] cannot read, 0 if it reads all
FirstUnreadable(e) ==
    IF \A k \in 1..Len(FieldOrder) : Subscriptable(e, FieldOrder[k])
    THEN 0
    ELSE CHOOSE k \in 1..Len(FieldOrder) :
            /\ ~Subscriptable(e, FieldOrder[k])
            /\ \A m \in 1..(k - 1) : Subscriptable(e, FieldOrder[m])

\* lines 111-112: one row is printed
TableRow ==
    /\ pc = "rows"
    /\ row <= PyLen(result)
    /\ FirstUnreadable(result.items[row]) = 0
    /\ table' = Append(table, result.items[row])
    /\ Emit(<<"row">>)
    /\ row' = row + 1
    /\ UNCHANGED <<pc, env_key, num_attractions, client, api_calls, response,
                   attractions_list, result, exc, preview_len, csv>>

\* mutant of TableRowFails: a key that cannot be read is printed as empty
TableRowDefaults ==
    /\ pc = "rows"
    /\ row <= PyLen(result)
    /\ FirstUnreadable(result.items[row]) # 0
    /\ table' = Append(table, result.items[row])
    /\ Emit(<<"row">>)
    /\ row' = row + 1
    /\ UNCHANGED <<pc, env_key, num_attractions, client, api_calls, response,
                   attractions_list, result, exc, preview_len, csv>>

\* line 112: the element is no dict (TypeError) or lacks a key (KeyError)
TableRowFails ==
    /\ pc = "rows"
    /\ row <= PyLen(result)
    /\ FirstUnreadable(result.items[row]) # 0
    /\ Raise(SubscriptError(result.items[row]))
    /\ UNCHANGED <<env_key, num_attractions, client, api_calls, response,
                   attractions_list, result, out, preview_len, table, row, csv>>

\* lines 111, 127: the loop ends, main goes on to save_to_csv
TableDone ==
    /\ pc = "rows"
    /\ row > PyLen(result)
    /\ Emit(<<"saving">>)
    /\ pc' = "save"
    /\ UNCHANGED <<env_key, num_attractions, client, api_calls, response,
                   attractions_list, result, exc, preview_len, table, row, csv>>

\* lines 97-99 and 130: the list is written to data.csv and the run completes
SaveToCsv ==
    /\ pc = "save"
    /\ result.kind = "list"
    /\ csv' = [written |-> TRUE, rows |-> result.items]
    /\ Emit(<<"saved", "completed">>)
    /\ pc' = "done"
    /\ UNCHANGED <<env_key, num_attractions, client, api_calls, response,
                   attractions_list, result, exc, preview_len, table, row>>

\* line 97: pd.DataFrame of a string raises ValueError
SaveFails ==
    /\ pc = "save"
    /\ result.kind # "list"
    /\ Raise("ValueError")
    /\ UNCHANGED <<env_key, num_attractions, client, api_calls, response,
                   attractions_list, result, out, preview_len, table, row, csv>>

Next ==
    \/ \E n \in 1..MaxN : MainCall(n)
    \/ KeyMissing
    \/ BuildClient
    \/ RequestAnswered
    \/ RequestFails
    \/ ParseOk
    \/ ParseNoGet
    \/ ParseNoLen
    \/ ParseInvalid
    \/ ParseNone
    \/ WarnShort
    \/ NoWarn
    \/ Return
    \/ ReturnNoSlice
    \/ TableEmpty
    \/ TableHeader
    \/ TableRow
    \/ TableRowFails
    \/ TableDone
    \/ SaveToCsv
    \/ SaveFails

Spec == Init /\ [][Next]_vars

-----------------------------------------------------------------------------
\* Vocabulary of the properties

\* generate_attractions_list has returned normally
GenReturned == result.kind # "None"

\* generate_attractions_list has ended, by return or by exception
GenFinished == pc \in {"print_table", "rows", "save", "done", "aborted"}

\* the under-delivery warning was printed
Warned == \E k \in 1..Len(out) : out[k] = "warning"

Printed(line) == \E k \in 1..Len(out) : out[k] = line

\* the first min(n, Len(s)) elements of s, in order
FirstN(s, n) == [k \in 1..(IF Len(s) < n THEN Len(s) ELSE n) |-> s[k]]

IsPrefix(s, t) == /\ Len(s) <= Len(t)
                  /\ \A k \in 1..Len(s) : s[k] = t[k]

\* the response parsed to a JSON array
ListResponse == response.kind = "json" /\ response.json.kind = "list"

\* the response parsed to a JSON object
ObjectResponse == response.kind = "json" /\ response.json.kind = "dict"

\* the response parsed to a string, number, boolean or null
OtherResponse ==
    response.kind = "json" /\ response.json.kind \notin {"list", "dict"}

\* C1: for a positive count n and a response that parses to a list L, the
\* function returns exactly the first min(n, len(L)) elements of L, in order
\* and unchanged; never more than n, never an element that is not in L.
C1_ReturnsFirstN ==
    (ListResponse /\ GenFinished) =>
        LET L == response.json.top.items
            n == num_attractions
        IN /\ GenReturned
           /\ result = PyList(FirstN(L, n))
           /\ Len(result.items) <= n
           /\ Len(L) = n => result.items = L
           /\ Len(L) < n => result.items = L
           /\ Len(L) > n => Len(result.items) = n /\ IsPrefix(result.items, L)
           /\ \A k \in 1..Len(result.items) :
                 \E m \in 1..Len(L) : result.items[k] = L[m]

\* a list longer than the requested count was cut to its first n elements
C1_Witness ==
    /\ ListResponse
    /\ GenReturned
    /\ Len(response.json.top.items) > num_attractions
    /\ Len(result.items) = num_attractions
    /\ num_attractions >= 2
    /\ result.items[1] # result.items[2]

\* C2: with XAI_API_KEY absent or empty the function raises ValueError, no
\* client is built and no request is issued; a request is only ever issued
\* after the credential check has passed.
C2_MissingKeyFailsFast ==
    /\ (env_key \in {"absent", "empty"} /\ pc \notin {"main", "check_key"}) =>
          /\ pc = "aborted"
          /\ exc = "ValueError"
          /\ ~GenReturned
    /\ env_key \in {"absent", "empty"} => ~client /\ api_calls = 0
    /\ (client \/ api_calls > 0) => env_key = "set" /\ Printed("api_key_found")

\* the run ended on the empty credential
C2_Witness ==
    /\ env_key = "empty"
    /\ pc = "aborted"
    /\ exc = "ValueError"
    /\ api_calls = 0

\* C3: at most one chat-completion request is issued in a run, and exactly
\* one once the credential check has passed and the call was made; a failed
\* call, a parse failure or under-delivery is followed by no second request.
C3_SingleRequest ==
    /\ api_calls \in {0, 1}
    /\ (env_key = "set" /\ pc \notin {"main", "check_key", "send"}) =>
          api_calls = 1
    /\ exc = "APIError" => pc = "aborted" /\ api_calls = 1 /\ ~GenReturned

\* a request failed and the run ended with one request made
C3_Witness ==
    /\ exc = "APIError"
    /\ pc = "aborted"
    /\ api_calls = 1
    /\ Printed("api_error")

\* C4: a candidate sequence shorter than n is returned whole, without
\* exception and with the under-delivery warning; the warning is printed if
\* and only if the candidate's length is below n.
C4_UnderDelivery ==
    /\ (HasLen(attractions_list) /\ pc # "check_len") =>
          (Warned <=> PyLen(attractions_list) < num_attractions)
    /\ ~HasLen(attractions_list) => ~Warned
    /\ (Sliceable(attractions_list) /\ GenFinished
          /\ PyLen(attractions_list) < num_attractions) =>
          /\ GenReturned
          /\ Warned
          /\ result = attractions_list
          /\ exc \notin {"APIError", "JSONDecodeError", "AttributeError"}

\* a list of two elements was returned whole, with the warning, for n = 3
C4_Witness ==
    /\ attractions_list.kind = "list"
    /\ PyLen(attractions_list) = 2
    /\ num_attractions = 3
    /\ GenReturned
    /\ result = attractions_list
    /\ Warned

\* C5: for a response that parses to an object, the candidate is the value
\* under "attractions"; when that value is a list the result and the warning
\* are those of the bare list; without the key the candidate is empty and
\* the call returns an empty list, with the warning.
C5_KeyedObject ==
    /\ (ObjectResponse /\ response.json.has /\ attractions_list # PyNone) =>
          attractions_list = response.json.attr
    /\ (ObjectResponse /\ response.json.has /\ GenFinished
          /\ response.json.attr.kind = "list") =>
          /\ GenReturned
          /\ result = PyList(FirstN(response.json.attr.items, num_attractions))
          /\ Warned <=> Len(response.json.attr.items) < num_attractions
    /\ (ObjectResponse /\ ~response.json.has /\ GenFinished) =>
          /\ GenReturned
          /\ result = PyList(<< >>)
          /\ Warned
          /\ exc = "none"

\* an object's inner list was cut to the requested count, without warning
C5_Witness ==
    /\ ObjectResponse
    /\ response.json.has
    /\ response.json.attr.kind = "list"
    /\ Len(response.json.attr.items) > num_attractions
    /\ GenReturned
    /\ Len(result.items) = num_attractions
    /\ ~Warned

\* C6: a response text that is not JSON ends the run with JSONDecodeError,
\* after the error and a preview of at most 500 characters were printed;
\* nothing is returned, no table is printed and no CSV is written.
C6_InvalidJson ==
    (response.kind = "invalid" /\ pc # "parse") =>
        /\ pc = "aborted"
        /\ exc = "JSONDecodeError"
        /\ ~GenReturned
        /\ Printed("json_decode_error")
        /\ Printed("raw_preview")
        /\ preview_len = Min(response.len, PreviewLen)
        /\ table = << >>
        /\ ~Printed("table_header")
        /\ ~Printed("no_attractions")
        /\ ~csv.written

\* a text longer than the preview was rejected
C6_Witness ==
    /\ response.kind = "invalid"
    /\ response.len > PreviewLen
    /\ exc = "JSONDecodeError"
    /\ preview_len = PreviewLen

\* the three terminal outcomes of the normalizing step
FullCount ==
    GenReturned /\ PyLen(result) = num_attractions /\ ~Warned
PartialCount ==
    GenReturned /\ PyLen(result) < num_attractions /\ Warned
FatalFailure ==
    /\ ~GenReturned
    /\ pc = "aborted"
    /\ exc \in {"JSONDecodeError", "AttributeError", "TypeError", "KeyError"}

\* C7: after an answered request the normalizing step ends in exactly one
\* of: full count without warning, fewer than n elements with the warning,
\* or an exception without result; a string, number, boolean or null always
\* ends in the exception.
C7_ThreeOutcomes ==
    /\ (response.kind # "noresponse" /\ GenFinished) =>
          /\ FullCount \/ PartialCount \/ FatalFailure
          /\ ~(FullCount /\ PartialCount)
          /\ ~(FullCount /\ FatalFailure)
          /\ ~(PartialCount /\ FatalFailure)
    /\ (OtherResponse /\ pc # "parse") => FatalFailure

\* a number, boolean or null response ended in AttributeError
C7_Witness ==
    /\ OtherResponse
    /\ response.json.kind \in {"num", "bool", "null"}
    /\ FatalFailure
    /\ exc = "AttributeError"

\* C8: the CSV is written only after the function returned and the table
\* was printed; a missing credential, a failed request or a malformed
\* response ends the run before save_to_csv; a run that completes after an
\* under-delivery has written the reduced set.
C8_CsvOnlyAfterSuccess ==
    /\ csv.written =>
          /\ pc = "done"
          /\ exc = "none"
          /\ GenReturned
          /\ env_key = "set"
          /\ api_calls = 1
          /\ ~Printed("api_error")
          /\ ~Printed("json_decode_error")
          /\ response.kind = "json"
          /\ Printed("no_attractions") \/ Printed("table_header")
          /\ table = result.items
          /\ csv.rows = result.items
    /\ exc # "none" => pc = "aborted" /\ ~csv.written /\ ~Printed("completed")
    /\ pc = "done" => csv.written /\ Printed("completed")
    /\ (pc = "done" /\ Warned) =>
          /\ csv.rows = attractions_list.items
          /\ Len(csv.rows) < num_attractions

\* a run completed after an under-delivery and wrote the one record it got
C8_Witness ==
    /\ pc = "done"
    /\ Warned
    /\ csv.written
    /\ Len(csv.rows) = 1
    /\ table = csv.rows

\* the index of the first element of s that line 112 cannot print, 0 if none
FirstBad(s) ==
    IF \A k \in 1..Len(s) : s[k].kind = "dict" /\ s[k].keys = Fields
    THEN 0
    ELSE CHOOSE k \in 1..Len(s) :
            /\ ~(s[k].kind = "dict" /\ s[k].keys = Fields)
            /\ \A m \in 1..(k - 1) : s[m].kind = "dict" /\ s[m].keys = Fields

\* the first n elements of the list candidate hold a record lacking a key
IncompleteInFirstN ==
    /\ attractions_list.kind = "list"
    /\ \E k \in 1..Len(attractions_list.items) :
          /\ k <= num_attractions
          /\ attractions_list.items[k].kind = "dict"
          /\ attractions_list.items[k].keys # Fields

\* C9: a record lacking name, address or description is returned by the
\* function unchanged and without error; the run then fails in print_table,
\* at the first element it cannot read, and never writes the CSV.
C9_MissingFieldFailsInTable ==
    (IncompleteInFirstN /\ GenFinished) =>
        LET bad == FirstBad(result.items)
        IN /\ GenReturned
           /\ result.items = FirstN(attractions_list.items, num_attractions)
           /\ \E k \in 1..Len(result.items) :
                 result.items[k].kind = "dict" /\ result.items[k].keys # Fields
           /\ pc \in {"print_table", "rows", "aborted"}
           /\ ~csv.written
           /\ bad # 0
           /\ row <= bad
           /\ IsPrefix(table, result.items)
           /\ pc = "aborted" =>
                 /\ row = bad
                 /\ Len(table) = bad - 1
                 /\ exc = IF result.items[bad].kind = "dict"
                          THEN "KeyError" ELSE "TypeError"

\* the table printer printed one row and failed on the second record
C9_Witness ==
    /\ IncompleteInFirstN
    /\ GenReturned
    /\ pc = "aborted"
    /\ exc = "KeyError"
    /\ row = 2
    /\ Len(table) = 1
    /\ ~csv.written

\* C10: whenever the function returns normally for a positive n, the value
\* returned is a list of at most n elements, also when the response is an
\* object whose "attractions" value is not a list.
C10_ReturnsListOnly ==
    GenReturned => result.kind = "list" /\ Len(result.items) <= num_attractions
====
